---- MODULE Spec2Model ----
(***************************************************************************)
(* Planet (OpenGLFramework/Planet.cpp, Planet.h): a planetary surface mesh *)
(* built from a height grid of fractal noise.                              *)
(*                                                                         *)
(* Numbers.  The program computes in float and double; the model computes  *)
(* in exact fixed point and ignores rounding:                              *)
(*   heights (tex, minHeight, maxHeight, dH)   1/32          (HeightOne)   *)
(*   K (Params.S)                              1/100         (KOne)        *)
(*   water (Params.W), coeff                   1/1000        (MilliOne)    *)
(*   radii (radius, adjRadius1, adjRadius2)    1/3200000     (RadiusOne)   *)
(*   angles                                    1/1000 degree               *)
(*   colour channels                           1/255000      (ColorOne)    *)
(*   R in 10^6 m, M in 10^24 kg, day in 10^4 s, G in those units           *)
(* A value the model cannot compute exactly (a product with a cosine or a  *)
(* sine, a normalised cross product) is the tuple of what it is computed   *)
(* from: equal tuples are equal floats.                                    *)
(***************************************************************************)
EXTENDS Integers, Sequences, FiniteSets, TLC

VARIABLES planet, rng, call

vars == <<planet, rng, call>>

(***************************************************************************)
(* Bounds of the model.                                                    *)
(***************************************************************************)
MaxSectors == 3
MaxStacks == 3

SectorArgs == 1..MaxSectors
StackArgs == 1..MaxStacks
\* set itself is called with the smallest and the largest counts, <<sectors,
\* stacks>>; the setters reach every count between them
SetArgs == {<<1, 1>>, <<MaxSectors, MaxStacks>>}
\* the default radius 1.0f and one other
RadiusArgs == {1, 2}
\* the states of the generator behind rand()
RandStates == {0, 1, 2}

(***************************************************************************)
(* Constants of the program and the scales of the fixed point.             *)
(***************************************************************************)
MIN_SECTOR_COUNT == 3
MIN_STACK_COUNT == 2
res == 2
G == 6674
HeightOne == 32
KOne == 100
MilliOne == 1000
RadiusOne == 3200000
ColorOne == 255000

Max(a, b) == IF a > b THEN a ELSE b
Abs(a) == IF a < 0 THEN 0 - a ELSE a

(***************************************************************************)
(* Params, as parseFile fills it from a planet grammar file (the defaults  *)
(* of the struct first).                                                   *)
(***************************************************************************)
\* the defaults of struct Params: Earth
EarthParams ==
    [R |-> 6, M |-> 6, D |-> 9, S |-> 10, T |-> 15, W |-> 570,
     terrestrial |-> TRUE, red |-> 0, green |-> 0, blue |-> 0]

\* an Earth with "T -16", and the Mars of the shipped grammar file
\* ("R 3376", "M 6.4171e23", "D 24.62", "S 0.05", "T -63", "W 0.0",
\* "C color 193 68 14")
ParamSets ==
    { [EarthParams EXCEPT !.T = -16],
      [R |-> 3, M |-> 1, D |-> 9, S |-> 5, T |-> -63, W |-> 0,
       terrestrial |-> FALSE, red |-> 193000, green |-> 68000, blue |-> 14000] }

(***************************************************************************)
(* rand(): the C library's generator, a state and a value drawn from it.   *)
(***************************************************************************)
randNext(s) == (s + 1) % Cardinality(RandStates)
randValue(s) == (s * 37 + 1) % 101

(***************************************************************************)
(* noise3 and noise1 (Noise.h): deterministic, bounded noise.  A sample    *)
(* point is [r, stack, sector]: the radius times res and the two angles.   *)
(***************************************************************************)
noise3(vec, freq) ==
    LET a == (vec.stack + 90000) \div 15000
        b == IF Abs(vec.stack) = 90000 THEN 0 ELSE (vec.sector % 360000) \div 6000
    IN ((vec.r * 5 + a * 3 + b + a * b * freq + freq * 11) % 7) - 3

noise1(x) == (((x \div 15000) % 5) - 2) * 12750

(***************************************************************************)
(* recnoise: octaves of noise3 at doubling frequency and halving size.     *)
(***************************************************************************)
\* the recursion stopped one octave early
RECURSIVE recnoiseFiveOctaves(_, _, _)
recnoiseFiveOctaves(vec, freq, size) ==
    IF freq > 16 THEN 0
    ELSE noise3(vec, freq) * size + recnoiseFiveOctaves(vec, freq * 2, size \div 2)

RECURSIVE recnoise(_, _, _)
recnoise(vec, freq, size) ==
    IF freq > 32 THEN 0
    ELSE noise3(vec, freq) * size + recnoise(vec, freq * 2, size \div 2)

\* the calls of noise3 that recnoise makes: <<freq, size>> of each, in order
RECURSIVE recnoiseOctaves(_, _)
recnoiseOctaves(freq, size) ==
    IF freq > 32 THEN <<>>
    ELSE <<<<freq, size>>>> \o recnoiseOctaves(freq * 2, size \div 2)

(***************************************************************************)
(* setTexture: the height grid of (stacks+1) x (sectors+1) cells and the   *)
(* running minimum and maximum.                                            *)
(***************************************************************************)
stackAngleOf(i, stacks) == 90000 - i * (180000 \div stacks)
sectorAngleOf(j, sectors) == j * (360000 \div sectors)

samplePoint(p, stacks, sectors, i, j) ==
    [r |-> p.radius * res, stack |-> stackAngleOf(i, stacks),
     sector |-> sectorAngleOf(j, sectors)]

\* a running maximum alone, the branch on the minimum dropped
updateMaxOnly(mm, t) == IF t > mm[2] THEN <<mm[1], t>> ELSE mm

updateMinMax(mm, t) ==
    IF t < mm[1] THEN <<t, mm[2]>>
    ELSE IF t > mm[2] THEN <<mm[1], t>>
    ELSE mm

\* the loop over the cells, row by row: cell k is tex[i][j]
RECURSIVE textureLoop(_, _, _, _, _)
textureLoop(p, stacks, sectors, k, acc) ==
    IF k = (stacks + 1) * (sectors + 1) THEN acc
    ELSE LET i == k \div (sectors + 1)
             j == k % (sectors + 1)
             t == recnoise(samplePoint(p, stacks, sectors, i, j), 1, HeightOne)
             mm == updateMinMax(<<acc.minHeight, acc.maxHeight>>, t)
         IN textureLoop(p, stacks, sectors, k + 1,
                        [tex |-> acc.tex @@ (<<i, j>> :> t),
                         minHeight |-> mm[1], maxHeight |-> mm[2]])

setTexture(p, stacks, sectors) ==
    LET grid == textureLoop(p, stacks, sectors, 0,
                            [tex |-> <<>>, minHeight |-> p.minHeight,
                             maxHeight |-> p.maxHeight])
    IN [p EXCEPT !.tex = grid.tex, !.minHeight = grid.minHeight,
                 !.maxHeight = grid.maxHeight,
                 !.dH = grid.maxHeight - grid.minHeight]

(***************************************************************************)
(* Oblateness (buildVertices, first lines): omega = 2 pi / day and         *)
(* h = R^4 omega^2 / (G M), then h / R, in double.  A double is a          *)
(* fraction <<numerator, denominator>> in lowest terms, pi is 22/7.        *)
(***************************************************************************)
dPI == <<22, 7>>

RECURSIVE GCD(_, _)
GCD(a, b) == IF b = 0 THEN a ELSE GCD(b, a % b)

RNorm(q) == LET g == GCD(Abs(q[1]), Abs(q[2])) IN <<q[1] \div g, q[2] \div g>>
RMul(a, b) == RNorm(<<a[1] * b[1], a[2] * b[2]>>)
RDiv(a, b) == RNorm(<<a[1] * b[2], a[2] * b[1]>>)
\* a < b for positive fractions, by their continued fractions
RECURSIVE RLess(_, _)
RLess(a, b) ==
    IF a[1] \div a[2] # b[1] \div b[2] THEN a[1] \div a[2] < b[1] \div b[2]
    ELSE IF a[1] % a[2] = 0 THEN b[1] % b[2] > 0
    ELSE IF b[1] % b[2] = 0 THEN FALSE
    ELSE RLess(<<b[2], b[1] % b[2]>>, <<a[2], a[1] % a[2]>>)

\* the angular speed growing with the length of the day
omegaTimesDay(day) == RMul(RMul(<<2, 1>>, dPI), <<day, 1>>)

omegaOf(day) == RDiv(RMul(<<2, 1>>, dPI), <<day, 1>>)

oblateness(R, M, day) ==
    LET omega == omegaOf(day)
        h == RDiv(RMul(<<R * R * R * R, 1>>, RMul(omega, omega)), <<G * M, 1>>)
    IN RDiv(h, <<R, 1>>)

(***************************************************************************)
(* The conversion of the double h to the scale of the radii                *)
(* (adjRadius2 + h): floor(h * RadiusOne), one factor at a time.           *)
(***************************************************************************)
RECURSIVE scaleBy(_, _, _, _)
scaleBy(q, r, d, factors) ==
    IF factors = <<>> THEN q
    ELSE LET f == Head(factors)
         IN scaleBy(q * f + (r * f) \div d, (r * f) % d, d, Tail(factors))

toRadius(h) ==
    scaleBy(h[1] \div h[2], h[1] % h[2], h[2], <<2, 2, 2, 2, 2, 10, 10, 10, 10, 10>>)

(***************************************************************************)
(* colorVertex.  r1 and r2 are the values the two calls of rand() return;  *)
(* draws is the number of calls made (&& evaluates left to right and       *)
(* stops at the first false operand).                                      *)
(***************************************************************************)
Snow == [r |-> 255000, g |-> 249900, b |-> 249900, a |-> ColorOne]
IceShelf == [r |-> 180000, g |-> 207000, b |-> 250000, a |-> ColorOne]
OpenWater == [r |-> 0, g |-> 94000, b |-> 184000, a |-> ColorOne]
Sand == [r |-> 194055, g |-> 177990, b |-> 128010, a |-> ColorOne]
Grass == [r |-> 0, g |-> 154000, b |-> 23000, a |-> ColorOne]

\* floor((d/100)^(10/9) * 180000/pi) for d = 0..49: d * 0.01 < pow(x, 0.9)
\* exactly when x, in 1/1000 degree, is above entry d.
Pow09 ==
    <<0, 343, 741, 1164, 1602, 2053, 2514, 2984, 3462, 3946,
      4436, 4931, 5432, 5937, 6447, 6960, 7478, 7999, 8524, 9051,
      9582, 10116, 10653, 11192, 11734, 12279, 12826, 13375, 13926, 14480,
      15036, 15594, 16154, 16716, 17279, 17845, 18413, 18982, 19553, 20125,
      20699, 21275, 21852, 22431, 23012, 23594, 24177, 24762, 25348, 25935>>

\* rand() % 50 * 0.01 < pow(x, 0.25), x in 1/1000 degree (pi as 3.1416)
fuzzPolar(r, x) == (((r % 50) * (r % 50) * (r % 50) * (r % 50)) * 18) \div 31416 < x

\* rand() % 50 * 0.01 < pow(x, 0.9)
fuzzIce(r, x) == Pow09[(r % 50) + 1] < x

\* the snow coefficient without its cap
coeffUncapped(p, absLat) == (17 * ((p.temp + 45) * 1000 - absLat)) \div 300

coeffOf(p, absLat) ==
    LET localTemp == (p.temp + 45) * 1000 - absLat
        coeff == (17 * localTemp) \div 300
    IN IF coeff > 910 THEN 910 ELSE coeff

snowHeightOf(p, absLat) == (p.minHeight * MilliOne + coeffOf(p, absLat) * p.dH) * p.K

\* the water height falling as the water fraction grows
waterHeightInverted(p) ==
    (p.minHeight * MilliOne + (MilliOne - p.water) * p.dH) * p.K

waterHeightOf(p) == (p.minHeight * MilliOne + p.water * p.dH) * p.K

sandHeightOf(p, absLat) ==
    LET waterHeight == waterHeightOf(p)
    IN waterHeight + ((snowHeightOf(p, absLat) - waterHeight) * 2) \div 25

inPolarBand(p, absLat) == absLat - 45000 > p.temp * 1000

polarBase(p, absLat) == absLat - (45000 + p.temp * 1000)

isPolarZone(p, absLat, r1) ==
    /\ inPolarBand(p, absLat)
    /\ fuzzPolar(r1, polarBase(p, absLat))
    /\ p.water > 0

\* the water branch without its test of the water fraction
isBelowWaterHeight(p, aR, waterHeight) ==
    aR <= p.radius * RadiusOne + waterHeight

\* the water branch leaving out the vertices exactly at the water height
isStrictlyBelowWater(p, aR, waterHeight) ==
    /\ aR < p.radius * RadiusOne + waterHeight
    /\ p.water > 0

isOpenWater(p, aR, waterHeight) ==
    /\ aR <= p.radius * RadiusOne + waterHeight
    /\ p.water > 0

colorVertex(p, aR, latitude, r1, r2) ==
    LET absLat == Abs(latitude)
        radius == p.radius * RadiusOne
        waterHeight == waterHeightOf(p)
        draws == IF inPolarBand(p, absLat) THEN 1 ELSE 0
    IN IF isPolarZone(p, absLat, r1)
       THEN IF aR > radius + waterHeight
            THEN [v |-> Snow, branch |-> "polarSnow", draws |-> 1]
            ELSE IF fuzzIce(r2, polarBase(p, absLat))
                 THEN [v |-> IceShelf, branch |-> "iceShelf", draws |-> 2]
                 ELSE [v |-> OpenWater, branch |-> "polarWater", draws |-> 2]
       ELSE IF isOpenWater(p, aR, waterHeight)
       THEN [v |-> OpenWater, branch |-> "water", draws |-> draws]
       ELSE IF aR < radius + sandHeightOf(p, absLat) /\ p.terrestrial
       THEN [v |-> Sand, branch |-> "sand", draws |-> draws]
       ELSE IF aR > radius + snowHeightOf(p, absLat) /\ p.water > 0
       THEN [v |-> Snow, branch |-> "snow", draws |-> draws]
       ELSE IF p.terrestrial
       THEN [v |-> Grass, branch |-> "grass", draws |-> draws]
       ELSE LET noise == noise1(latitude * 2)
            IN [v |-> [r |-> p.red + noise, g |-> p.green + noise,
                       b |-> p.blue + noise, a |-> ColorOne],
                branch |-> "base", draws |-> draws]

(***************************************************************************)
(* buildVertices, first loop: one Vertex per grid cell, row by row.        *)
(* tex[i][j] outside the grid that setTexture allocated is a read past     *)
(* the end of the row: the value is whatever the heap holds (garbage).     *)
(***************************************************************************)
texRead(p, garbage, i, j) ==
    IF <<i, j>> \in DOMAIN p.tex THEN p.tex[<<i, j>>] ELSE garbage

waterFloorOf(p) ==
    p.radius * RadiusOne + (p.minHeight * MilliOne + p.dH * p.water) * p.K

adjRadius1Of(p, t) == p.radius * RadiusOne + t * p.K * MilliOne

\* the placement radius without the smoothing under water
adjRadiusUnsmoothed(p, t) == p.radius * RadiusOne + t * p.K * MilliOne

adjRadius2Of(p, t) ==
    LET adjRadius1 == adjRadius1Of(p, t)
        waterFloor == waterFloorOf(p)
    IN IF adjRadius1 < waterFloor
       THEN waterFloor + t * p.K * p.K * (RadiusOne \div (HeightOne * KOne * KOne))
       ELSE adjRadius1

gridVertex(p, h, t, i, j, r1, r2) ==
    LET stackAngle == stackAngleOf(i, p.stackCount)
        sectorAngle == sectorAngleOf(j, p.sectorCount)
        adjRadius2 == adjRadius2Of(p, t)
        color == colorVertex(p, adjRadius1Of(p, t), stackAngle, r1, r2)
    IN [vertex |-> [x |-> <<"x", adjRadius2 + h, stackAngle, sectorAngle>>,
                    y |-> <<"y", adjRadius2 + h, stackAngle, sectorAngle>>,
                    z |-> <<"z", adjRadius2, stackAngle>>,
                    r |-> color.v.r, g |-> color.v.g, b |-> color.v.b, a |-> color.v.a],
        draws |-> color.draws]

RECURSIVE advance(_, _)
advance(s, n) == IF n = 0 THEN s ELSE advance(randNext(s), n - 1)

RECURSIVE vertexLoop(_, _, _, _, _, _)
vertexLoop(p, h, garbage, k, tmpVertices, s) ==
    IF k = (p.stackCount + 1) * (p.sectorCount + 1)
    THEN [tmpVertices |-> tmpVertices, rng |-> s]
    ELSE LET i == k \div (p.sectorCount + 1)
             j == k % (p.sectorCount + 1)
             gv == gridVertex(p, h, texRead(p, garbage, i, j), i, j,
                              randValue(s), randValue(randNext(s)))
         IN vertexLoop(p, h, garbage, k + 1, Append(tmpVertices, gv.vertex),
                       advance(s, gv.draws))

(***************************************************************************)
(* The buffers and the helpers that append to them.                        *)
(***************************************************************************)
\* no clear at all: a build appends to what the earlier build left
keepArrays(p) == p

clearArrays(p) ==
    [p EXCEPT !.vertices = <<>>, !.normals = <<>>, !.colors = <<>>,
              !.indices = <<>>, !.lineIndices = <<>>]

addVertex(p, v) == [p EXCEPT !.vertices = @ \o <<v.x, v.y, v.z>>]
\* a normal pushed with a fourth component
addNormalXYZW(p, n) == [p EXCEPT !.normals = @ \o <<n[1], n[2], n[3], n[3]>>]
addNormal(p, n) == [p EXCEPT !.normals = @ \o <<n[1], n[2], n[3]>>]
addColor(p, v) == [p EXCEPT !.colors = @ \o <<v.r, v.g, v.b, v.a>>]
\* a triangle whose third index is one vertex too far
addIndicesPastThird(p, i1, i2, i3) == [p EXCEPT !.indices = @ \o <<i1, i2, i3 + 1>>]
addIndices(p, i1, i2, i3) == [p EXCEPT !.indices = @ \o <<i1, i2, i3>>]
addLine(p, i1, i2) == [p EXCEPT !.lineIndices = @ \o <<i1, i2>>]

\* what the three floats of a position are computed from
position(v) == <<v.x[2], v.x[3], v.x[4], v.z[2]>>

computeFaceNormal(v1, v2, v3) ==
    LET face == position(v1) \o position(v2) \o position(v3)
    IN <<<<"nx">> \o face, <<"ny">> \o face, <<"nz">> \o face>>

RECURSIVE addNormals(_, _, _)
addNormals(p, n, k) == IF k = 0 THEN p ELSE addNormals(addNormal(p, n), n, k - 1)

(***************************************************************************)
(* buildVertices, second loop: the face of row i, sector j.                *)
(***************************************************************************)
isFirstStack(p, i) == i = 0
\* the last row taken to be the one after the last
isPastLastStack(p, i) == i = p.stackCount
isLastStack(p, i) == i = p.stackCount - 1

\* a first stack that also draws its horizontal edge
firstStackBothEdges(p, v1, v2, v4, index) ==
    LET a == addVertex(addVertex(addVertex(p, v1), v2), v4)
        b == addColor(addColor(addColor(a, v1), v2), v4)
        c == addNormals(b, computeFaceNormal(v1, v2, v4), 3)
        d == addIndices(c, index, index + 1, index + 2)
    IN [planet |-> addLine(addLine(d, index, index + 1), index, index + 2),
        index |-> index + 3]

firstStackFace(p, v1, v2, v4, index) ==
    LET a == addVertex(addVertex(addVertex(p, v1), v2), v4)
        b == addColor(addColor(addColor(a, v1), v2), v4)
        c == addNormals(b, computeFaceNormal(v1, v2, v4), 3)
        d == addIndices(c, index, index + 1, index + 2)
    IN [planet |-> addLine(d, index, index + 1), index |-> index + 3]

lastStackFace(p, v1, v2, v3, index) ==
    LET a == addVertex(addVertex(addVertex(p, v1), v2), v3)
        b == addColor(addColor(addColor(a, v1), v2), v3)
        c == addNormals(b, computeFaceNormal(v1, v2, v3), 3)
        d == addIndices(c, index, index + 1, index + 2)
    IN [planet |-> addLine(addLine(d, index, index + 1), index, index + 2),
        index |-> index + 3]

quadFace(p, v1, v2, v3, v4, index) ==
    LET a == addVertex(addVertex(addVertex(addVertex(p, v1), v2), v3), v4)
        b == addColor(addColor(addColor(addColor(a, v1), v2), v3), v4)
        c == addNormals(b, computeFaceNormal(v1, v2, v3), 4)
        d == addIndices(addIndices(c, index, index + 1, index + 2),
                        index + 2, index + 1, index + 3)
    IN [planet |-> addLine(addLine(d, index, index + 1), index, index + 2),
        index |-> index + 4]

face(p, tmpVertices, i, j, index) ==
    LET vi1 == i * (p.sectorCount + 1) + j
        vi2 == (i + 1) * (p.sectorCount + 1) + j
        v1 == tmpVertices[vi1 + 1]
        v2 == tmpVertices[vi2 + 1]
        v3 == tmpVertices[vi1 + 2]
        v4 == tmpVertices[vi2 + 2]
    IN IF isFirstStack(p, i) THEN firstStackFace(p, v1, v2, v4, index)
       ELSE IF isLastStack(p, i) THEN lastStackFace(p, v1, v2, v3, index)
       ELSE quadFace(p, v1, v2, v3, v4, index)

RECURSIVE faceLoop(_, _, _, _)
faceLoop(p, tmpVertices, k, index) ==
    IF k = p.stackCount * p.sectorCount THEN p
    ELSE LET f == face(p, tmpVertices, k \div p.sectorCount, k % p.sectorCount, index)
         IN faceLoop(f.planet, tmpVertices, k + 1, f.index)

(***************************************************************************)
(* buildInterleavedVertices: position, normal, colour of each vertex.      *)
(***************************************************************************)
RECURSIVE interleave(_, _, _, _)
interleave(p, i, j, out) ==
    IF i >= Len(p.vertices) THEN out
    ELSE interleave(p, i + 3, j + 4,
                    out \o <<p.vertices[i + 1], p.vertices[i + 2], p.vertices[i + 3],
                             p.normals[i + 1], p.normals[i + 2], p.normals[i + 3],
                             p.colors[j + 1], p.colors[j + 2], p.colors[j + 3],
                             p.colors[j + 4]>>)

\* the normal of each vertex put before its position
buildInterleavedNormalFirst(p) ==
    [p EXCEPT !.interleavedVertices =
        interleave([p EXCEPT !.vertices = p.normals, !.normals = p.vertices],
                   0, 0, <<>>)]

buildInterleavedVertices(p) ==
    [p EXCEPT !.interleavedVertices = interleave(p, 0, 0, <<>>)]

buildVertices(p, garbage, s) ==
    LET h == toRadius(oblateness(p.R, p.M, p.day))
        grid == vertexLoop(p, h, garbage, 0, <<>>, s)
    IN [planet |-> buildInterleavedVertices(
                       faceLoop(clearArrays(p), grid.tmpVertices, 0, 0)),
        rng |-> grid.rng]

(***************************************************************************)
(* The setters and the constructor.  Each returns the object and the       *)
(* state of rand() after it.                                               *)
(***************************************************************************)
floorCounts(p, radius, sectors, stacks) ==
    LET a == [p EXCEPT !.radius = radius, !.sectorCount = sectors]
        b == IF sectors < MIN_SECTOR_COUNT
             THEN [a EXCEPT !.sectorCount = MIN_SECTOR_COUNT] ELSE a
        c == [b EXCEPT !.stackCount = stacks]
    IN IF sectors < MIN_STACK_COUNT
       THEN [c EXCEPT !.sectorCount = MIN_STACK_COUNT] ELSE c

set(p, radius, sectors, stacks, garbage, s) ==
    buildVertices(setTexture(floorCounts(p, radius, sectors, stacks), stacks, sectors),
                  garbage, s)

setRadius(p, radius, garbage, s) ==
    IF radius # p.radius THEN set(p, radius, p.sectorCount, p.stackCount, garbage, s)
    ELSE [planet |-> p, rng |-> s]

setSectorCount(p, sectors, garbage, s) ==
    IF sectors # p.sectorCount THEN set(p, p.radius, sectors, p.stackCount, garbage, s)
    ELSE [planet |-> p, rng |-> s]

setStackCount(p, stacks, garbage, s) ==
    IF stacks # p.stackCount THEN set(p, p.radius, p.sectorCount, stacks, garbage, s)
    ELSE [planet |-> p, rng |-> s]

\* The members as the in-class initialisers and the constructor's first
\* lines leave them, before its call of set.
members(params) ==
    [radius |-> 0, sectorCount |-> 0, stackCount |-> 0,
     vertices |-> <<>>, normals |-> <<>>, colors |-> <<>>,
     indices |-> <<>>, lineIndices |-> <<>>, interleavedVertices |-> <<>>,
     tex |-> <<>>, minHeight |-> 0, maxHeight |-> 0, dH |-> 0,
     interleavedStride |-> 40,
     R |-> params.R, M |-> params.M, day |-> params.D, K |-> params.S,
     temp |-> params.T, water |-> params.W, terrestrial |-> params.terrestrial,
     red |-> params.red, green |-> params.green, blue |-> params.blue]

Planet(params, radius, sectors, stacks, garbage, s) ==
    set(members(params), radius, sectors, stacks, garbage, s)

(***************************************************************************)
(* The program: a Planet is constructed, then its setters are called.      *)
(* call records the last build: who called set (the constructor "Planet",  *)
(* or a setter, "set"), the arguments set received, and the state of       *)
(* rand() the build started with.  A setter whose argument equals the      *)
(* member returns at once and changes nothing.                             *)
(***************************************************************************)
GarbageValues == {-200, 200}

\* the garbage a build can read: none when the grid covers the counts
garbageOf(p, sectors) ==
    IF floorCounts(p, p.radius, sectors, 1).sectorCount > sectors
    THEN GarbageValues ELSE {0}

calling(op, radius, sectors, stacks, s) ==
    [op |-> op, radius |-> radius, sectors |-> sectors, stacks |-> stacks, rng |-> s]

Init ==
    \E params \in ParamSets, radius \in RadiusArgs, sectors \in SectorArgs,
       stacks \in StackArgs, seed \in RandStates :
        \E garbage \in garbageOf(members(params), sectors) :
            LET made == Planet(params, radius, sectors, stacks, garbage, seed)
            IN /\ planet = made.planet
               /\ rng = made.rng
               /\ call = calling("Planet", radius, sectors, stacks, seed)

Set ==
    \E radius \in RadiusArgs, counts \in SetArgs :
        \E garbage \in garbageOf(planet, counts[1]) :
            LET made == set(planet, radius, counts[1], counts[2], garbage, rng)
            IN /\ planet' = made.planet
               /\ rng' = made.rng
               /\ call' = calling("set", radius, counts[1], counts[2], rng)

SetRadius ==
    \E radius \in RadiusArgs :
        \E garbage \in garbageOf(planet, planet.sectorCount) :
            LET made == setRadius(planet, radius, garbage, rng)
            IN /\ radius # planet.radius
               /\ planet' = made.planet
               /\ rng' = made.rng
               /\ call' = calling("set", radius, planet.sectorCount,
                                  planet.stackCount, rng)

SetSectorCount ==
    \E sectors \in SectorArgs :
        \E garbage \in garbageOf(planet, sectors) :
            LET made == setSectorCount(planet, sectors, garbage, rng)
            IN /\ sectors # planet.sectorCount
               /\ planet' = made.planet
               /\ rng' = made.rng
               /\ call' = calling("set", planet.radius, sectors,
                                  planet.stackCount, rng)

SetStackCount ==
    \E stacks \in StackArgs :
        \E garbage \in garbageOf(planet, planet.sectorCount) :
            LET made == setStackCount(planet, stacks, garbage, rng)
            IN /\ stacks # planet.stackCount
               /\ planet' = made.planet
               /\ rng' = made.rng
               /\ call' = calling("set", planet.radius,
                                  planet.sectorCount, stacks, rng)

Next == Set \/ SetRadius \/ SetSectorCount \/ SetStackCount

Spec == Init /\ [][Next]_vars

(***************************************************************************)
(* Properties.  What the properties read from the state.                   *)
(***************************************************************************)
\* the Params an object was constructed from
paramsOf(p) ==
    [R |-> p.R, M |-> p.M, D |-> p.day, S |-> p.K, T |-> p.temp, W |-> p.water,
     terrestrial |-> p.terrestrial, red |-> p.red, green |-> p.green, blue |-> p.blue]

\* the number of vertices in the buffers, and the colour of vertex k
vertexCount(p) == Len(p.vertices) \div 3
colorAt(p, k) ==
    [r |-> p.colors[4 * k + 1], g |-> p.colors[4 * k + 2],
     b |-> p.colors[4 * k + 3], a |-> p.colors[4 * k + 4]]

\* the grid vertices of the last build (garbage read as 0)
tmpVerticesOf(p, s) ==
    vertexLoop(p, toRadius(oblateness(p.R, p.M, p.day)), 0, 0, <<>>, s).tmpVertices

\* the last build was a rebuild of an object built before
Rebuilt == call.op = "set"

(***************************************************************************)
(* C1: after set(radius, sectors, stacks), and so after the constructor    *)
(* and every setter that rebuilds, sectorCount = max(sectors, 3) and       *)
(* stackCount = max(stacks, 2).                                            *)
(***************************************************************************)
C1_CountsFloored ==
    /\ planet.sectorCount = Max(call.sectors, MIN_SECTOR_COUNT)
    /\ planet.stackCount = Max(call.stacks, MIN_STACK_COUNT)

(***************************************************************************)
(* C2: after every build the position, normal, colour and index buffers    *)
(* have the shapes of one mesh: positions and normals in threes, colours   *)
(* in fours, as many vertices in each, indices in threes, line indices in  *)
(* twos.                                                                   *)
(***************************************************************************)
C2_BufferShapes ==
    /\ Len(planet.vertices) % 3 = 0
    /\ Len(planet.normals) % 3 = 0
    /\ Len(planet.colors) % 4 = 0
    /\ Len(planet.vertices) \div 3 = Len(planet.normals) \div 3
    /\ Len(planet.normals) \div 3 = Len(planet.colors) \div 4
    /\ Len(planet.indices) % 3 = 0
    /\ Len(planet.lineIndices) % 2 = 0

\* a rebuild whose mesh has triangles and quads
C2_Witness ==
    /\ Rebuilt
    /\ planet.stackCount >= 3
    /\ Len(planet.colors) > 0
    /\ Len(planet.indices) > 0

(***************************************************************************)
(* C3: with sectorCount >= 3 and stackCount >= 2 the buffers hold exactly  *)
(* 2*(3*sectorCount) + 4*sectorCount*(stackCount-2) vertices after a       *)
(* build, whatever was built before: no vertex of an earlier build is      *)
(* left in any of them.                                                    *)
(***************************************************************************)
emittedVertices(sectorCount, stackCount) ==
    2 * (3 * sectorCount) + 4 * sectorCount * (stackCount - 2)

C3_VertexCount ==
    (planet.sectorCount >= 3 /\ planet.stackCount >= 2) =>
        LET n == emittedVertices(planet.sectorCount, planet.stackCount)
        IN /\ Len(planet.vertices) = 3 * n
           /\ Len(planet.normals) = 3 * n
           /\ Len(planet.colors) = 4 * n
           /\ Len(planet.interleavedVertices) = 10 * n

\* a rebuild, to a mesh with quads, of an object whose earlier build, of
\* another grid, left a minimum or a maximum that this grid does not reach
C3_Witness ==
    /\ Rebuilt
    /\ planet.sectorCount >= 3 /\ planet.stackCount >= 3
    /\ vertexCount(planet) = emittedVertices(planet.sectorCount, planet.stackCount)
    /\ planet.minHeight < 0 /\ planet.maxHeight > 0
    /\ \/ \A c \in DOMAIN planet.tex : planet.tex[c] > planet.minHeight
       \/ \A c \in DOMAIN planet.tex : planet.tex[c] < planet.maxHeight

(***************************************************************************)
(* C4: with sectorCount >= 3 and stackCount >= 2 the index buffer holds    *)
(* 2*sectorCount*(stackCount-1) triangles: every sector of the first and   *)
(* of the last row adds one triangle, every sector of a row between adds   *)
(* two.  The default Earth at 8 sectors and 4 stacks has 48 triangles,     *)
(* 144 indices.                                                            *)
(***************************************************************************)
C4_TriangleCount ==
    (planet.sectorCount >= 3 /\ planet.stackCount >= 2) =>
        LET tmpVertices == tmpVerticesOf(planet, call.rng)
        IN /\ Len(planet.indices) = 3 * (2 * planet.sectorCount * (planet.stackCount - 1))
           /\ \A i \in 0..(planet.stackCount - 1), j \in 0..(planet.sectorCount - 1) :
                Len(face(clearArrays(planet), tmpVertices, i, j, 0).planet.indices)
                    = IF i = 0 \/ i = planet.stackCount - 1 THEN 3 ELSE 6

\* a rebuild with a row of quads between the two rows of triangles
C4_Witness ==
    /\ Rebuilt
    /\ planet.sectorCount = 3 /\ planet.stackCount = 3
    /\ Len(planet.indices) = 36

(***************************************************************************)
(* C5: after the constructor and after every rebuild, dH >= 0 and every    *)
(* cell of the current height grid lies between minHeight and maxHeight.   *)
(***************************************************************************)
C5_HeightsWithinRange ==
    /\ planet.dH >= 0
    /\ planet.dH = planet.maxHeight - planet.minHeight
    /\ \A c \in DOMAIN planet.tex :
        /\ planet.minHeight <= planet.tex[c]
        /\ planet.tex[c] <= planet.maxHeight

\* a rebuild whose grid has a cell below zero and a cell above zero
C5_Witness ==
    /\ Rebuilt
    /\ planet.dH > 0
    /\ \E c \in DOMAIN planet.tex : planet.tex[c] < 0
    /\ \E c \in DOMAIN planet.tex : planet.tex[c] > 0

(***************************************************************************)
(* C6: the mesh is a function of the parameters and the configuration      *)
(* alone.  An object that reached (radius, sectorCount, stackCount)        *)
(* through earlier calls has the buffers, the minHeight, the maxHeight and *)
(* the dH of an object freshly constructed with that configuration, the    *)
(* draws of rand() being the same.  Stated for the builds whose counts     *)
(* are at or above the two floors, where no read leaves the grid.          *)
(***************************************************************************)
C6_MeshOfConfigurationOnly ==
    (call.sectors >= MIN_SECTOR_COUNT /\ call.stacks >= MIN_STACK_COUNT) =>
        LET fresh == Planet(paramsOf(planet), planet.radius, planet.sectorCount,
                            planet.stackCount, 0, call.rng).planet
        IN /\ fresh.minHeight = planet.minHeight
           /\ fresh.maxHeight = planet.maxHeight
           /\ fresh.dH = planet.dH
           /\ fresh.vertices = planet.vertices
           /\ fresh.normals = planet.normals
           /\ fresh.colors = planet.colors
           /\ fresh.indices = planet.indices
           /\ fresh.lineIndices = planet.lineIndices

(***************************************************************************)
(* C7: building again from the same parameters, the same arguments and     *)
(* the same draws of rand() gives the same buffers, the interleaved one    *)
(* included, whatever else differs between the two builds (here: what the  *)
(* heap holds past the end of a grid row).                                 *)
(***************************************************************************)
C7_SameBuildSameBuffers ==
    \A garbage \in garbageOf(planet, call.sectors) :
        LET again == set(planet, call.radius, call.sectors, call.stacks,
                         garbage, call.rng).planet
        IN /\ again.vertices = planet.vertices
           /\ again.normals = planet.normals
           /\ again.colors = planet.colors
           /\ again.indices = planet.indices
           /\ again.lineIndices = planet.lineIndices
           /\ again.interleavedVertices = planet.interleavedVertices

(***************************************************************************)
(* C8: with a water fraction of 0 or less no vertex takes the polar        *)
(* branch or the open-water branch and none gets the open-water or the     *)
(* ice-shelf colour: at every cell of the grid, every temperature and      *)
(* every value of the two draws.                                           *)
(***************************************************************************)
DryLevels == {0, -250}
Temps == {-63, 15, 40}
\* rand() % 50
Draws == 0..49
WaterColours == {OpenWater, IceShelf}
WaterBranches == {"polarSnow", "iceShelf", "polarWater", "water"}

C8_NoWaterNoWaterColour ==
    /\ planet.water <= 0 =>
        \A k \in 0..(vertexCount(planet) - 1) : colorAt(planet, k) \notin WaterColours
    /\ \A w \in DryLevels, T \in Temps, c \in DOMAIN planet.tex, r1 \in Draws :
        LET dry == [planet EXCEPT !.water = w, !.temp = T]
            colour == colorVertex(dry, adjRadius1Of(dry, planet.tex[c]),
                                  stackAngleOf(c[1], planet.stackCount), r1, 49 - r1)
        IN /\ colour.branch \notin WaterBranches
           /\ colour.v \notin WaterColours

\* a rebuild without water of a grid with a cell in the polar band, the
\* draw passing the fuzz, and a cell at or below the water height
C8_Witness ==
    /\ Rebuilt
    /\ planet.water <= 0
    /\ \E c \in DOMAIN planet.tex :
        LET absLat == Abs(stackAngleOf(c[1], planet.stackCount))
        IN /\ inPolarBand(planet, absLat)
           /\ fuzzPolar(randValue(call.rng), polarBase(planet, absLat))
    /\ \E c \in DOMAIN planet.tex :
        adjRadius1Of(planet, planet.tex[c])
            <= planet.radius * RadiusOne + waterHeightOf(planet)

(***************************************************************************)
(* C9: K >= 0, temp and terrestrial fixed, the number of vertices with     *)
(* the open-water or the ice-shelf colour does not fall as the water       *)
(* fraction rises from 0 to 1, whatever rand() draws in either build.      *)
(***************************************************************************)
WaterLevels == {0, 300, 570, 1000}

waterColoured(p) ==
    Cardinality({k \in 0..(vertexCount(p) - 1) : colorAt(p, k) \in WaterColours})

C9_WaterCountMonotone ==
    \A garbage \in garbageOf(planet, call.sectors) :
        LET counts == {<<w, s, waterColoured(buildVertices(
                           [planet EXCEPT !.water = w], garbage, s).planet)>> :
                       w \in WaterLevels, s \in RandStates}
        IN \A a, b \in counts : a[1] <= b[1] => a[3] <= b[3]

\* a rebuild with some vertices under water, not all: more are with all the
\* height range under water, none is without water
C9_Witness ==
    /\ Rebuilt
    /\ planet.water > 0 /\ planet.water < MilliOne
    /\ planet.K >= 0
    /\ waterColoured(planet) > 0
    /\ waterColoured(planet) < vertexCount(planet)
    /\ waterColoured(buildVertices([planet EXCEPT !.water = MilliOne], 0,
                                   call.rng).planet) > waterColoured(planet)
    /\ waterColoured(buildVertices([planet EXCEPT !.water = 0], 0,
                                   call.rng).planet) = 0

(***************************************************************************)
(* C10: for R, M, day > 0 the oblateness h = R^4 (2 pi / day)^2 / (G M) / R *)
(* is greater than 0, and a longer day gives a smaller h.                  *)
(***************************************************************************)
MaxDay == 12
Days == 1..MaxDay

C10_OblatenessFallsWithDay ==
    /\ \A day \in Days : RLess(<<0, 1>>, oblateness(planet.R, planet.M, day))
    /\ \A d1, d2 \in Days :
        d1 < d2 => RLess(oblateness(planet.R, planet.M, d2),
                         oblateness(planet.R, planet.M, d1))

\* a rebuild whose equatorial radius exceeds the polar one by h > 0, the
\* day of the planet being neither the shortest nor the longest
C10_Witness ==
    /\ Rebuilt
    /\ planet.R > 0 /\ planet.M > 0
    /\ planet.day > 1 /\ planet.day < MaxDay
    /\ toRadius(oblateness(planet.R, planet.M, planet.day)) > 0
    /\ Len(planet.vertices) > 0
    /\ planet.vertices[1][2] - planet.vertices[3][2]
           = toRadius(oblateness(planet.R, planet.M, planet.day))

(***************************************************************************)
(* C11: the interleaved buffer is a transform of the position, normal and  *)
(* colour buffers alone: 10 floats a vertex, floats 10n..10n+2 the         *)
(* position of vertex n, 10n+3..10n+5 its normal, 10n+6..10n+9 its RGBA    *)
(* colour; the stride the object reports is 10 floats of 4 bytes, 40.      *)
(***************************************************************************)
getInterleavedStride(p) == p.interleavedStride

cellsRead(p) == (0..p.stackCount) \X (0..p.sectorCount)

C12_GridCoversTheCounts ==
    /\ DOMAIN planet.tex = cellsRead(planet)
    /\ \A c \in cellsRead(planet) : c \in DOMAIN planet.tex

(***************************************************************************)
(* C13: after a build of the height grid, minHeight is the smallest and    *)
(* maxHeight the largest value of the current grid, and dH is the spread   *)
(* of the current grid.                                                    *)
(***************************************************************************)
C13_MinMaxOfCurrentGrid ==
    /\ \E c \in DOMAIN planet.tex : planet.tex[c] = planet.minHeight
    /\ \A c \in DOMAIN planet.tex : planet.tex[c] >= planet.minHeight
    /\ \E c \in DOMAIN planet.tex : planet.tex[c] = planet.maxHeight
    /\ \A c \in DOMAIN planet.tex : planet.tex[c] <= planet.maxHeight
    /\ planet.dH = planet.maxHeight - planet.minHeight

(***************************************************************************)
(* C14: the noise sample point of cell (i, j) is the point of the sphere   *)
(* of radius 1 at the cell's two angles, times res; so the height grid     *)
(* does not depend on the radius given to set or setRadius.                *)
(***************************************************************************)
C14_SampledOnUnitSphere ==
    /\ \A c \in DOMAIN planet.tex :
        samplePoint(planet, call.stacks, call.sectors, c[1], c[2]).r = 1 * res
    /\ \A radius \in RadiusArgs :
        setTexture([planet EXCEPT !.radius = radius], call.stacks, call.sectors).tex
            = planet.tex


(***************************************************************************)
(* C15: colorVertex returns the colour of the first rule that matches,     *)
(* in the order polar zone (snow above the water height, else ice shelf    *)
(* or open water by the second draw), open water, sand, snow, and last     *)
(* grass on a terrestrial planet or the base colour plus                   *)
(* noise1(2 * latitude) on the others; coeff is at most 0.91, alpha is 1,  *)
(* and a planet that is not terrestrial gets neither sand nor grass.       *)
(***************************************************************************)
DrawPairs == {<<0, 49>>, <<49, 0>>, <<12, 30>>, <<30, 12>>}
Wetness == {0, 570}

\* the index of the first condition that holds
firstMatch(conds) ==
    CHOOSE k \in 1..Len(conds) : conds[k] /\ \A m \in 1..(k - 1) : ~conds[m]

\* the colour the ordered rules give, from the quantities of the rules
ruleColour(p, aR, latitude, r1, r2) ==
    LET absLat == Abs(latitude)
        radius == p.radius * RadiusOne
        localTemp == (p.temp + 45) * 1000 - absLat
        uncapped == (17 * localTemp) \div 300
        coeff == IF uncapped > 910 THEN 910 ELSE uncapped
        snowHeight == (p.minHeight * MilliOne + coeff * p.dH) * p.K
        waterHeight == (p.minHeight * MilliOne + p.water * p.dH) * p.K
        sandHeight == waterHeight + ((snowHeight - waterHeight) * 2) \div 25
        fuzzBase == absLat - (45000 + p.temp * 1000)
        polar == /\ absLat - 45000 > p.temp * 1000
                 /\ fuzzPolar(r1, fuzzBase)
                 /\ p.water > 0
        rule == firstMatch(<<polar,
                             aR <= radius + waterHeight /\ p.water > 0,
                             aR < radius + sandHeight /\ p.terrestrial,
                             aR > radius + snowHeight /\ p.water > 0,
                             TRUE>>)
        noise == noise1(2 * latitude)
    IN CASE rule = 1 -> IF aR > radius + waterHeight THEN Snow
                        ELSE IF fuzzIce(r2, fuzzBase) THEN IceShelf
                        ELSE OpenWater
         [] rule = 2 -> OpenWater
         [] rule = 3 -> Sand
         [] rule = 4 -> Snow
         [] rule = 5 -> IF p.terrestrial THEN Grass
                        ELSE [r |-> p.red + noise, g |-> p.green + noise,
                              b |-> p.blue + noise, a |-> ColorOne]

C15_FirstMatchingRule ==
    \A T \in Temps, w \in Wetness, land \in BOOLEAN, c \in DOMAIN planet.tex,
       d \in DrawPairs :
        LET p == [planet EXCEPT !.temp = T, !.water = w, !.terrestrial = land]
            aR == adjRadius1Of(p, planet.tex[c])
            latitude == stackAngleOf(c[1], planet.stackCount)
            colour == colorVertex(p, aR, latitude, d[1], d[2])
        IN /\ colour.v = ruleColour(p, aR, latitude, d[1], d[2])
           /\ coeffOf(p, Abs(latitude)) <= 910
           /\ colour.v.a = ColorOne
           /\ ~land => /\ colour.branch \notin {"sand", "grass"}
                       /\ colour.v \notin {Sand, Grass}

\* a rebuild of a grid on which the rules give at least four colours as
\* the temperature, the water, the flag and the draws vary, one of them
\* the base colour of a planet that is not terrestrial, at a cell below
\* the sand height
C15_Witness ==
    /\ Rebuilt
    /\ Cardinality({colorVertex([planet EXCEPT !.temp = T, !.water = w],
                                adjRadius1Of(planet, planet.tex[c]),
                                stackAngleOf(c[1], planet.stackCount),
                                d[1], d[2]).v :
                    T \in Temps, w \in Wetness, c \in DOMAIN planet.tex,
                    d \in DrawPairs}) >= 4
    /\ \E c \in DOMAIN planet.tex :
        LET p == [planet EXCEPT !.terrestrial = FALSE, !.water = 0]
            aR == adjRadius1Of(p, planet.tex[c])
            latitude == stackAngleOf(c[1], planet.stackCount)
        IN /\ aR < p.radius * RadiusOne + sandHeightOf(p, Abs(latitude))
           /\ colorVertex(p, aR, latitude, 0, 0).branch = "base"


(***************************************************************************)
(* C16: the value drawn for the polar test and for the ice-shelf test      *)
(* ranges over all of [0, 1): at every vertex inside the polar latitude    *)
(* band whose fuzz value is below 1 (the angle past the band's edge is     *)
(* below 1 radian) some draw fails the polar test and some draw fails the  *)
(* ice-shelf test.                                                         *)
(***************************************************************************)
\* 1 radian in 1/1000 degree (pi as 3.1416): pow(x, e) < 1 exactly below it
OneRadian == 57296

C16_DrawCoversUnitInterval ==
    \A T \in Temps, c \in DOMAIN planet.tex :
        LET p == [planet EXCEPT !.temp = T]
            absLat == Abs(stackAngleOf(c[1], planet.stackCount))
            x == polarBase(p, absLat)
        IN (inPolarBand(p, absLat) /\ x < OneRadian) =>
               /\ \E r \in Draws : ~fuzzPolar(r, x)
               /\ \E r \in Draws : ~fuzzIce(r, x)


(***************************************************************************)
(* C17: every grid vertex is placed at adjRadius2, which is                *)
(* waterFloor + H[i][j] * K^2 when adjRadius1 = radius + H[i][j] * K is    *)
(* below waterFloor = radius + (minHeight + dH * water) * K, and           *)
(* adjRadius1 otherwise.                                                   *)
(***************************************************************************)
\* the placement radius of the rule, in 1/RadiusOne, for a height H in
\* 1/HeightOne
smoothed(p, H) ==
    LET adjRadius1 == p.radius * RadiusOne + H * p.K * MilliOne
        waterFloor == p.radius * RadiusOne
                          + (p.minHeight * MilliOne + p.dH * p.water) * p.K
    IN IF adjRadius1 < waterFloor
       THEN waterFloor + H * p.K * p.K * (MilliOne \div KOne)
       ELSE adjRadius1

\* the radius at which buffer vertex n was placed (its z is radius * sin)
placedAt(p, n) == p.vertices[3 * n + 3][2]

C17_WaterSmoothing ==
    /\ \A garbage \in garbageOf(planet, call.sectors) :
        LET h == toRadius(oblateness(planet.R, planet.M, planet.day))
            tmp == vertexLoop(planet, h, garbage, 0, <<>>, call.rng).tmpVertices
        IN \A c \in cellsRead(planet) :
            LET v == tmp[c[1] * (planet.sectorCount + 1) + c[2] + 1]
                H == texRead(planet, garbage, c[1], c[2])
            IN /\ v.z[2] = smoothed(planet, H)
               /\ v.x[2] = smoothed(planet, H) + h
               /\ v.y[2] = smoothed(planet, H) + h
    /\ \A n \in 0..(vertexCount(planet) - 1) :
        \E H \in {planet.tex[c] : c \in DOMAIN planet.tex} \cup GarbageValues :
            placedAt(planet, n) = smoothed(planet, H)

\* a rebuild with water whose buffers hold a vertex placed below the water
\* floor, away from adjRadius1, and a vertex above it
C17_Witness ==
    /\ Rebuilt
    /\ planet.water > 0
    /\ \E c \in DOMAIN planet.tex, n \in 0..(vertexCount(planet) - 1) :
        /\ adjRadius1Of(planet, planet.tex[c]) < waterFloorOf(planet)
        /\ placedAt(planet, n) = smoothed(planet, planet.tex[c])
        /\ placedAt(planet, n) # adjRadius1Of(planet, planet.tex[c])
    /\ \E c \in DOMAIN planet.tex, n \in 0..(vertexCount(planet) - 1) :
        /\ adjRadius1Of(planet, planet.tex[c]) > waterFloorOf(planet)
        /\ placedAt(planet, n) = adjRadius1Of(planet, planet.tex[c])


(***************************************************************************)
(* C18: with v1 = (i, j), v2 = (i+1, j), v3 = (i, j+1), v4 = (i+1, j+1),   *)
(* every sector of row 0 emits the one triangle (v1, v2, v4), every        *)
(* sector of row stackCount - 1 the one triangle (v1, v2, v3), every       *)
(* sector of a row between the two triangles (v1, v2, v3) and              *)
(* (v3, v2, v4); every vertex of a face carries the normal of the face's   *)
(* first triangle.                                                         *)
(***************************************************************************)
\* position and normal of buffer vertex n, the corners of triangle t
bufferPosition(p, n) ==
    <<p.vertices[3 * n + 1], p.vertices[3 * n + 2], p.vertices[3 * n + 3]>>
bufferNormal(p, n) ==
    <<p.normals[3 * n + 1], p.normals[3 * n + 2], p.normals[3 * n + 3]>>
triangleAt(p, t) ==
    <<bufferPosition(p, p.indices[3 * t + 1]),
      bufferPosition(p, p.indices[3 * t + 2]),
      bufferPosition(p, p.indices[3 * t + 3])>>

\* the first buffer vertex and the first triangle of the face of sector j
\* of row i, rows 0 and stackCount - 1 holding triangles, the others quads
firstVertexOf(p, i, j) ==
    IF i = 0 THEN 3 * j
    ELSE 3 * p.sectorCount + 4 * p.sectorCount * (i - 1)
             + (IF i = p.stackCount - 1 THEN 3 ELSE 4) * j
firstTriangleOf(p, i, j) ==
    IF i = 0 THEN j
    ELSE p.sectorCount + 2 * p.sectorCount * (i - 1)
             + (IF i = p.stackCount - 1 THEN 1 ELSE 2) * j

\* the grid vertex (i, j) of the first loop
cornerOf(p, tmpVertices, i, j) == tmpVertices[i * (p.sectorCount + 1) + j + 1]
placeOf(v) == <<v.x, v.y, v.z>>

C18_TessellationCorners ==
    \E garbage \in garbageOf(planet, call.sectors) :
        LET tmp == vertexLoop(planet,
                              toRadius(oblateness(planet.R, planet.M, planet.day)),
                              garbage, 0, <<>>, call.rng).tmpVertices
            v1(i, j) == cornerOf(planet, tmp, i, j)
            v2(i, j) == cornerOf(planet, tmp, i + 1, j)
            v3(i, j) == cornerOf(planet, tmp, i, j + 1)
            v4(i, j) == cornerOf(planet, tmp, i + 1, j + 1)
            last == planet.stackCount - 1
            sectors == 0..(planet.sectorCount - 1)
        IN /\ \A j \in sectors :
               /\ triangleAt(planet, firstTriangleOf(planet, 0, j))
                      = <<placeOf(v1(0, j)), placeOf(v2(0, j)), placeOf(v4(0, j))>>
               /\ \A n \in 0..2 :
                   bufferNormal(planet, firstVertexOf(planet, 0, j) + n)
                       = computeFaceNormal(v1(0, j), v2(0, j), v4(0, j))
           /\ \A j \in sectors :
               /\ triangleAt(planet, firstTriangleOf(planet, last, j))
                      = <<placeOf(v1(last, j)), placeOf(v2(last, j)),
                          placeOf(v3(last, j))>>
               /\ \A n \in 0..2 :
                   bufferNormal(planet, firstVertexOf(planet, last, j) + n)
                       = computeFaceNormal(v1(last, j), v2(last, j), v3(last, j))
           /\ \A i \in 1..(last - 1), j \in sectors :
               /\ triangleAt(planet, firstTriangleOf(planet, i, j))
                      = <<placeOf(v1(i, j)), placeOf(v2(i, j)), placeOf(v3(i, j))>>
               /\ triangleAt(planet, firstTriangleOf(planet, i, j) + 1)
                      = <<placeOf(v3(i, j)), placeOf(v2(i, j)), placeOf(v4(i, j))>>
               /\ \A n \in 0..3 :
                   bufferNormal(planet, firstVertexOf(planet, i, j) + n)
                       = computeFaceNormal(v1(i, j), v2(i, j), v3(i, j))


(***************************************************************************)
(* C19: every sector of row 0 emits exactly one line, the vertical edge    *)
(* v1-v2; every sector of every other row, the last included, emits        *)
(* exactly two, the vertical edge v1-v2 and the horizontal edge v1-v3;     *)
(* the line index buffer holds 2*sectorCount +                             *)
(* 4*sectorCount*(stackCount-1) indices and nothing else.                  *)
(***************************************************************************)
\* the two ends of line l of the line index buffer
lineAt(p, l) ==
    <<bufferPosition(p, p.lineIndices[2 * l + 1]),
      bufferPosition(p, p.lineIndices[2 * l + 2])>>

\* the first line of sector j of row i: one line a sector in row 0, two in
\* the rows after it
firstLineOf(p, i, j) ==
    IF i = 0 THEN j ELSE p.sectorCount + 2 * p.sectorCount * (i - 1) + 2 * j

C19_WireframeEdges ==
    /\ Len(planet.lineIndices)
           = 2 * planet.sectorCount
                 + 4 * planet.sectorCount * (planet.stackCount - 1)
    /\ \E garbage \in garbageOf(planet, call.sectors) :
        LET tmp == vertexLoop(planet,
                              toRadius(oblateness(planet.R, planet.M, planet.day)),
                              garbage, 0, <<>>, call.rng).tmpVertices
            v1(i, j) == placeOf(cornerOf(planet, tmp, i, j))
            v2(i, j) == placeOf(cornerOf(planet, tmp, i + 1, j))
            v3(i, j) == placeOf(cornerOf(planet, tmp, i, j + 1))
            sectors == 0..(planet.sectorCount - 1)
        IN /\ \A j \in sectors :
               lineAt(planet, firstLineOf(planet, 0, j)) = <<v1(0, j), v2(0, j)>>
           /\ \A i \in 1..(planet.stackCount - 1), j \in sectors :
               /\ lineAt(planet, firstLineOf(planet, i, j)) = <<v1(i, j), v2(i, j)>>
               /\ lineAt(planet, firstLineOf(planet, i, j) + 1)
                      = <<v1(i, j), v3(i, j)>>

\* a rebuild to a mesh with a first row, a row of quads and a last row,
\* whose wireframe has both kinds of edge
C19_Witness ==
    /\ Rebuilt
    /\ planet.stackCount >= 3
    /\ Len(planet.lineIndices) = 10 * planet.sectorCount
    /\ \E l, m \in 0..(Len(planet.lineIndices) \div 2 - 1) :
        /\ lineAt(planet, l)[1] = lineAt(planet, m)[1]
        /\ lineAt(planet, l)[2][3][3] # lineAt(planet, m)[2][3][3]
        /\ lineAt(planet, m)[2][3][3] = lineAt(planet, m)[1][3][3]


(***************************************************************************)
(* C20: recnoise started at frequency 1 and amplitude 1 evaluates noise3   *)
(* exactly 6 times, at the frequencies 1, 2, 4, 8, 16, 32 with the         *)
(* amplitudes 1, 1/2, 1/4, 1/8, 1/16, 1/32, and returns the sum of         *)
(* noise3(p * 2^k) / 2^k for k = 0..5: at every sample point of the grid,  *)
(* where it is the height stored.                                          *)
(***************************************************************************)
\* the sum of the six octaves, amplitudes in 1/HeightOne
octaveSum(vec) ==
    noise3(vec, 1) * HeightOne + noise3(vec, 2) * (HeightOne \div 2)
        + noise3(vec, 4) * (HeightOne \div 4) + noise3(vec, 8) * (HeightOne \div 8)
        + noise3(vec, 16) * (HeightOne \div 16) + noise3(vec, 32) * (HeightOne \div 32)

C20_SixOctaves ==
    /\ Len(recnoiseOctaves(1, HeightOne)) = 6
    /\ \A k \in 0..5 :
        recnoiseOctaves(1, HeightOne)[k + 1] = <<2 ^ k, HeightOne \div (2 ^ k)>>
    /\ \A c \in DOMAIN planet.tex :
        LET vec == samplePoint(planet, call.stacks, call.sectors, c[1], c[2])
        IN /\ recnoise(vec, 1, HeightOne) = octaveSum(vec)
           /\ planet.tex[c] = octaveSum(vec)

\* a rebuild whose grid has a sample point where every octave, the last
\* included, adds to the height
C20_Witness ==
    /\ Rebuilt
    /\ \E c \in DOMAIN planet.tex :
        LET vec == samplePoint(planet, call.stacks, call.sectors, c[1], c[2])
        IN /\ \A k \in 0..5 : noise3(vec, 2 ^ k) # 0
           /\ planet.tex[c] # 0
           /\ planet.tex[c] # noise3(vec, 1) * HeightOne


(***************************************************************************)
(* C21: after every build each value of the triangle index buffer and of   *)
(* the line index buffer is below the number of vertices, and the indices  *)
(* of a face name only the 3 or 4 vertices of that face: no vertex is      *)
(* referenced by two faces.                                                *)
(***************************************************************************)
\* the vertices, triangles and lines a sector of row i emits
faceVertices(p, i) == IF i = 0 \/ i = p.stackCount - 1 THEN 3 ELSE 4
faceTriangles(p, i) == IF i = 0 \/ i = p.stackCount - 1 THEN 1 ELSE 2
faceLines(p, i) == IF i = 0 THEN 1 ELSE 2

\* the buffer vertices the indices of the face of sector j of row i name
referencedBy(p, i, j) ==
    {p.indices[3 * t + k] :
        t \in firstTriangleOf(p, i, j)
                  ..(firstTriangleOf(p, i, j) + faceTriangles(p, i) - 1),
        k \in 1..3}
    \cup {p.lineIndices[2 * l + k] :
              l \in firstLineOf(p, i, j)..(firstLineOf(p, i, j) + faceLines(p, i) - 1),
              k \in 1..2}

facesOf(p) == (0..(p.stackCount - 1)) \X (0..(p.sectorCount - 1))

C21_IndicesWithinTheirFace ==
    /\ \A k \in 1..Len(planet.indices) :
        planet.indices[k] >= 0 /\ planet.indices[k] < vertexCount(planet)
    /\ \A k \in 1..Len(planet.lineIndices) :
        planet.lineIndices[k] >= 0 /\ planet.lineIndices[k] < vertexCount(planet)
    /\ \A f \in facesOf(planet) :
        referencedBy(planet, f[1], f[2])
            \subseteq firstVertexOf(planet, f[1], f[2])
                          ..(firstVertexOf(planet, f[1], f[2])
                                 + faceVertices(planet, f[1]) - 1)
    /\ \A f, g \in facesOf(planet) :
        f # g => referencedBy(planet, f[1], f[2])
                     \cap referencedBy(planet, g[1], g[2]) = {}

\* a rebuild to a mesh with triangles and quads whose last vertex is
\* referenced and whose quads reference all four of their vertices
C21_Witness ==
    /\ Rebuilt
    /\ planet.stackCount >= 3
    /\ \E k \in 1..Len(planet.indices) :
        planet.indices[k] = vertexCount(planet) - 1
    /\ \E f \in facesOf(planet) :
        Cardinality(referencedBy(planet, f[1], f[2])) = 4


(***************************************************************************)
(* C22: on a terrestrial planet with water > 0 a vertex gets the           *)
(* open-water or the ice-shelf colour exactly when                         *)
(* aR <= radius + waterHeight, whatever the two draws are; so every grid   *)
(* vertex that the smoothing displaces (adjRadius1 < waterFloor) has one   *)
(* of the two colours.                                                     *)
(***************************************************************************)
WetLevels == {300, 570, 1000}

\* aR <= radius + waterHeight, from the members
atOrBelowWater(p, aR) ==
    aR <= p.radius * RadiusOne
              + (p.minHeight * MilliOne + p.water * p.dH) * p.K

C22_WaterColourIffBelowWater ==
    /\ \A w \in WetLevels, T \in Temps \cup {planet.temp},
          c \in DOMAIN planet.tex, r1 \in Draws :
        LET p == [planet EXCEPT !.water = w, !.temp = T, !.terrestrial = TRUE]
            aR == adjRadius1Of(p, planet.tex[c])
            latitude == stackAngleOf(c[1], planet.stackCount)
        IN \A r2 \in {r1, 49 - r1} :
            colorVertex(p, aR, latitude, r1, r2).v \in WaterColours
                <=> atOrBelowWater(p, aR)
    /\ (planet.water > 0 /\ planet.terrestrial) =>
        \A garbage \in garbageOf(planet, call.sectors) :
            LET tmp == vertexLoop(planet,
                                  toRadius(oblateness(planet.R, planet.M, planet.day)),
                                  garbage, 0, <<>>, call.rng).tmpVertices
            IN \A c \in cellsRead(planet) :
                LET v == cornerOf(planet, tmp, c[1], c[2])
                    H == texRead(planet, garbage, c[1], c[2])
                IN adjRadius1Of(planet, H) < waterFloorOf(planet) =>
                       [r |-> v.r, g |-> v.g, b |-> v.b, a |-> v.a] \in WaterColours

\* a rebuild of a terrestrial planet with water: a displaced vertex in the
\* buffers with a water colour, a vertex with another colour, and a cell in
\* the polar band that one draw puts in the polar zone and another does not
C22_Witness ==
    /\ Rebuilt
    /\ planet.water > 0 /\ planet.terrestrial
    /\ \E c \in DOMAIN planet.tex, n \in 0..(vertexCount(planet) - 1) :
        /\ adjRadius1Of(planet, planet.tex[c]) < waterFloorOf(planet)
        /\ placedAt(planet, n) = adjRadius2Of(planet, planet.tex[c])
        /\ placedAt(planet, n) # adjRadius1Of(planet, planet.tex[c])
        /\ colorAt(planet, n) \in WaterColours
    /\ \E n \in 0..(vertexCount(planet) - 1) : colorAt(planet, n) \notin WaterColours
    /\ \E c \in DOMAIN planet.tex, r1, r2 \in Draws :
        LET absLat == Abs(stackAngleOf(c[1], planet.stackCount))
        IN /\ inPolarBand(planet, absLat)
           /\ fuzzPolar(r1, polarBase(planet, absLat))
           /\ ~fuzzPolar(r2, polarBase(planet, absLat))


(***************************************************************************)
(* C23: two builds that differ only in R, M or day, with the same draws    *)
(* of rand(), have the same colour, triangle index and line index          *)
(* buffers and make the same number of draws; their positions differ at    *)
(* most in x and y, z being the same.  Whatever else the two builds meet   *)
(* (here: what the heap holds past the end of a grid row) is not part of   *)
(* the statement.                                                          *)
(***************************************************************************)
\* <<R, M, day>>
OblatenessInputs == {<<3, 1, 9>>, <<6, 6, 9>>, <<6, 6, MaxDay>>, <<3, 6, 9>>}

\* the z components of the position buffer
zOf(p) == [n \in 0..(vertexCount(p) - 1) |-> p.vertices[3 * n + 3]]

C23_ColoursIgnoreOblateness ==
    \A o \in OblatenessInputs, garbage \in garbageOf(planet, call.sectors) :
        LET other == buildVertices([planet EXCEPT !.R = o[1], !.M = o[2],
                                                  !.day = o[3]],
                                   garbage, call.rng)
        IN /\ other.planet.colors = planet.colors
           /\ other.planet.indices = planet.indices
           /\ other.planet.lineIndices = planet.lineIndices
           /\ other.rng = rng
           /\ zOf(other.planet) = zOf(planet)

==============================================================================
